---- MODULE Spec2Model ----
(***************************************************************************)
(* The slot-lifecycle engine of src/video_gw.rs: VideoGateway couples a    *)
(* FIFO free list of slot ids (free_slots, behind a tokio Mutex) with a    *)
(* moka TTL cache whose eviction listener spawns a task that pushes the    *)
(* evicted id back onto the free list.  Request handlers, the sweep loop   *)
(* and the spawned release tasks run concurrently; every .await is a       *)
(* point where another task may run, so each handler is cut into one       *)
(* action per stretch of code between two suspension points.               *)
(***************************************************************************)
EXTENDS Integers, Sequences, FiniteSets, TLC

\* ---------------------------------------------------------------- bounds
\* max_slots, the capacity N handed to VideoGateway::new.
MaxSlots == 2
\* ttl handed to VideoGateway::new, in clock units.
TTL == 2
\* The clock stops advancing here.
MaxTime == 4
\* Concurrent request-handling workers.
NumClients == 2
\* The longest req.slot_ids a batch touch request carries.
MaxBatch == 2
\* The largest part index p a request to /{bvid}/{p} carries.
MaxPart == 3
\* The longest data array the pagelist lookup answers with.
MaxPages == 2
\* The width of usize in bits, scaled down from 64.
UsizeBits == 4

\* ---------------------------------------------------------------- values
SlotIds == 1..MaxSlots
\* SlotId is u32: a request may name any id; MaxSlots + 1 is never allocated.
Keys == 1..(MaxSlots + 1)
Clients == 1..NumClients
\* req.url: each worker posts a url of its own.
UrlOf(c) == <<"a", "b", "c", "d">>[c]
\* Option::None of Option<String> and of Option<SlotId>.
NoUrl == "none"
NoSlot == 0

VARIABLES
  free_slots,   \* VecDeque<SlotId> behind the Mutex
  lock,         \* holder of the free_slots Mutex
  cache,        \* moka Cache<SlotId, String>: key -> entry
  now,          \* the clock the cache reads
  pending,      \* spawned release tasks that have not yet taken the lock, per id
  clients,      \* position and locals of each request handler
  alloc_log,    \* outcomes of the dequeues made before the first eviction
  evicted,      \* TRUE once the eviction listener has spawned a release task
  keep_log,     \* whether alloc_log outlives the first eviction (never changes)
  batch,        \* req.slot_ids of each batch touch and how far its loop has got
  snapshot,     \* the map each get_all_redirect collected
  resolver      \* the bv_resolver request of src/bin/moe.rs: position and locals

vars == <<free_slots, lock, cache, now, pending, clients, alloc_log, evicted, keep_log, batch, snapshot, resolver>>

\* ---------------------------------------------------------------- cache
NoEntry == [present |-> FALSE, url |-> NoUrl, last_modified |-> 0]
Entry(u, t) == [present |-> TRUE, url |-> u, last_modified |-> t]

\* time_to_live(ttl): an entry is expired once last_modified + ttl <= now.
IsExpired(e) == e.present /\ e.last_modified + TTL <= now

\* An entry the cache still returns.
IsLive(e) == e.present /\ ~IsExpired(e)

\* A get that does not look at the clock.
CacheGet_ignores_expiry(k) == IF cache[k].present THEN cache[k].url ELSE NoUrl

\* cache.get(&slot_id): a read; an expired entry reads as None and stays put.
CacheGet(k) == IF IsLive(cache[k]) THEN cache[k].url ELSE NoUrl

\* The cause the cache reports when insert meets an entry under the same key.
UpsertCause(e) == IF IsExpired(e) THEN "Expired" ELSE "Replaced"

\* A listener that returns early on Expired as it does on Replaced.
eviction_listener_skips_expired(cause) ==
  CASE cause = "Replaced" -> FALSE
    [] cause = "Expired"  -> FALSE
    [] cause = "Explicit" -> TRUE
    [] cause = "Size"     -> TRUE

\* A listener without the early return on Replaced.
eviction_listener_no_return(cause) == TRUE

\* The listener's match on the cause: TRUE when it goes on to spawn a release.
eviction_listener(cause) ==
  CASE cause = "Replaced" -> FALSE
    [] cause = "Expired"  -> TRUE
    [] cause = "Explicit" -> TRUE
    [] cause = "Size"     -> TRUE

\* A listener that spawns two release tasks per notification.
Spawn_twice(p, ks) == [k \in Keys |-> IF k \in ks THEN p[k] + 2 ELSE p[k]]

\* tokio::spawn of the release task for every id of ks.
Spawn(p, ks) == [k \in Keys |-> IF k \in ks THEN p[k] + 1 ELSE p[k]]

\* The ids for which cache.insert(k, _) notifies the listener into spawning.
InsertSpawns(k) ==
  IF cache[k].present /\ eviction_listener(UpsertCause(cache[k])) THEN {k} ELSE {}

\* The log across a cache step: the first eviction freezes it when keep_log
\* is set and empties it otherwise.
Kept(ev) == IF ev /\ ~keep_log THEN <<>> ELSE alloc_log

\* An insert that leaves the clock of an entry it overwrites as it was.
CacheInsert_keeps_clock(k, u) ==
  /\ cache' = [cache EXCEPT ![k] =
                 Entry(u, IF cache[k].present THEN cache[k].last_modified ELSE now)]
  /\ pending' = Spawn(pending, InsertSpawns(k))
  /\ evicted' = (evicted \/ InsertSpawns(k) # {})
  /\ alloc_log' = Kept(evicted')

\* cache.insert(k, u): install or overwrite, clock reset to now.
CacheInsert(k, u) ==
  /\ cache' = [cache EXCEPT ![k] = Entry(u, now)]
  /\ pending' = Spawn(pending, InsertSpawns(k))
  /\ evicted' = (evicted \/ InsertSpawns(k) # {})
  /\ alloc_log' = Kept(evicted')

\* The entries a sweep finds expired.
ExpiredKeys == {k \in Keys : IsExpired(cache[k])}

\* The keys that have an entry in the cache, swept or not.
CacheKeys == {k \in Keys : cache[k].present}

\* max_capacity(max_slots as u64)
max_capacity == MaxSlots

\* The sets of entries a sweep may evict for size when ks are the entries left
\* after expiry: any choice of as many entries as exceed max_capacity, none
\* when the cache is within its capacity.
SizeVictims(ks) ==
  {vs \in SUBSET ks :
     Cardinality(vs) = IF Cardinality(ks) > max_capacity
                         THEN Cardinality(ks) - max_capacity ELSE 0}

\* The ids a sweep's notifications spawn a release for, when it removes es as
\* expired and vs for size.
Notified(es, vs) ==
  (IF eviction_listener("Expired") THEN es ELSE {}) \cup
  (IF eviction_listener("Size") THEN vs ELSE {})

\* The cause of the notification cache.insert(k, _) raises, "None" without one.
InsertCause(k) == IF cache[k].present THEN UpsertCause(cache[k]) ELSE "None"

\* ---------------------------------------------------------------- free pool
\* pop_front that hands out the head without taking it off the queue.
pop_front_keeps(q) == [id |-> Head(q), rest |-> q]

\* VecDeque::pop_front: the id taken and the queue left.
pop_front(q) == [id |-> Head(q), rest |-> Tail(q)]

\* A push at the head of the queue.
push_front(q, k) == <<k>> \o q

\* VecDeque::push_back
push_back(q, k) == Append(q, k)

\* ---------------------------------------------------------------- lock
Unlocked == [kind |-> "free", who |-> 0]
HeldByClient(c) == [kind |-> "client", who |-> c]
HeldByRelease(k) == [kind |-> "release", who |-> k]

\* ---------------------------------------------------------------- clients
\* A handler's record: its position, its locals url and slot_id and, once
\* touch_redirect_slot has ended, what it did: cause is "Miss" when cache.get
\* returned None, else the cause its cache.insert notified ("None" when the
\* insert met no entry); prev is the clock of the entry the insert overwrote.
NoClock == 0 - 1
Idle == [pc |-> "idle", url |-> NoUrl, slot_id |-> NoSlot, cause |-> "None", prev |-> NoClock]
At(c, p) == clients[c].pc = p
Goto(c, p, u, k) ==
  clients' = [clients EXCEPT ![c] =
                [pc |-> p, url |-> u, slot_id |-> k, cause |-> "None", prev |-> NoClock]]
Touched(c, k) ==
  clients' = [clients EXCEPT ![c] =
                [pc |-> "touch_done", url |-> NoUrl, slot_id |-> k, cause |-> InsertCause(k),
                 prev |-> IF cache[k].present THEN cache[k].last_modified ELSE NoClock]]
Missed(c, k) ==
  clients' = [clients EXCEPT ![c] =
                [pc |-> "touch_done", url |-> NoUrl, slot_id |-> k, cause |-> "Miss",
                 prev |-> NoClock]]

\* A worker that is not inside batch_touch_redirect_handler: no request list.
\* idx counts the ids the loop is done with, hits those of them whose
\* cache.get returned an entry.
NoBatch == [ids |-> <<>>, idx |-> 0, hits |-> 0]

\* A worker that holds no map collected by get_all_redirect.
NoSnapshot == [k \in Keys |-> NoUrl]

\* The pagelist answer has no data array (or no answer has been parsed).
NoData == 0 - 1

\* No bv_resolver request is being served.  A request's record: its position,
\* the part index p, whether the build checks arithmetic overflow, the length
\* of the data array of the pagelist answer, the index computed from p, whether
\* that computation went below zero, how often each of the two upstream
\* requests was sent, and the outcome.
NoRequest == [pc |-> "idle", p |-> 1, overflow_checks |-> TRUE, pages |-> NoData,
              index |-> 0, underflow |-> FALSE, sent |-> <<0, 0>>, result |-> "none"]

\* create_redirect_handler's match on the Option it gets.
create_redirect_handler(r) == IF r.slot_id = NoSlot THEN "SERVICE_UNAVAILABLE" ELSE "OK"

\* get_redirect_handler's match on the Option it gets.
get_redirect_handler(r) == IF r.url = NoUrl THEN "NOT_FOUND" ELSE "TEMPORARY_REDIRECT"

\* A constructor that fills the pool with one id more than the cache holds.
Init_one_more ==
  /\ free_slots = [i \in 1..(MaxSlots + 1) |-> i]
  /\ lock = Unlocked
  /\ cache = [k \in Keys |-> NoEntry]
  /\ now = 0
  /\ pending = [k \in Keys |-> 0]
  /\ clients = [c \in Clients |-> Idle]
  /\ alloc_log = <<>>
  /\ evicted = FALSE
  /\ keep_log = FALSE
  /\ batch = [c \in Clients |-> NoBatch]
  /\ snapshot = [c \in Clients |-> NoSnapshot]
  /\ resolver = NoRequest

\* VideoGateway::new
Init ==
  /\ free_slots = [i \in 1..MaxSlots |-> i]
  /\ lock = Unlocked
  /\ cache = [k \in Keys |-> NoEntry]
  /\ now = 0
  /\ pending = [k \in Keys |-> 0]
  /\ clients = [c \in Clients |-> Idle]
  /\ alloc_log = <<>>
  /\ evicted = FALSE
  /\ keep_log = FALSE
  /\ batch = [c \in Clients |-> NoBatch]
  /\ snapshot = [c \in Clients |-> NoSnapshot]
  /\ resolver = NoRequest

\* What the log keeps of a dequeue: nothing once an eviction has happened.
\* Past max_slots + 1 outcomes the log is full.
Logged(r) ==
  IF evicted \/ Len(alloc_log) > MaxSlots THEN alloc_log ELSE Append(alloc_log, r)

\* create_redirect_handler is entered with req.url.
CreateStart(c) ==
  /\ At(c, "idle")
  /\ Goto(c, "create_lock", UrlOf(c), NoSlot)
  /\ UNCHANGED <<free_slots, lock, cache, now, pending, alloc_log, evicted, keep_log, batch, snapshot, resolver>>

\* self.free_slots.lock().await
CreateLock(c) ==
  /\ At(c, "create_lock")
  /\ lock = Unlocked
  /\ lock' = HeldByClient(c)
  /\ Goto(c, "create_pop", clients[c].url, NoSlot)
  /\ UNCHANGED <<free_slots, cache, now, pending, alloc_log, evicted, keep_log, batch, snapshot, resolver>>

\* A dequeue that holds the lock until the pool has an id to give.
CreatePop_waits(c) ==
  /\ At(c, "create_pop")
  /\ free_slots # <<>>
  /\ lock' = Unlocked
  /\ Goto(c, "create_insert", clients[c].url, pop_front(free_slots).id)
  /\ free_slots' = pop_front(free_slots).rest
  /\ alloc_log' = Logged(pop_front(free_slots).id)
  /\ UNCHANGED <<cache, now, pending, evicted, keep_log, batch, snapshot, resolver>>

\* A dequeue that keeps the guard alive across the insert that follows.
CreatePop_keeps_guard(c) ==
  /\ At(c, "create_pop")
  /\ IF free_slots = <<>>
       THEN /\ Goto(c, "create_done", NoUrl, NoSlot)
            /\ free_slots' = free_slots
            /\ alloc_log' = Logged(NoSlot)
            /\ lock' = Unlocked
       ELSE /\ Goto(c, "create_insert", clients[c].url, pop_front(free_slots).id)
            /\ free_slots' = pop_front(free_slots).rest
            /\ alloc_log' = Logged(pop_front(free_slots).id)
            /\ lock' = lock
  /\ UNCHANGED <<cache, now, pending, evicted, keep_log, batch, snapshot, resolver>>

\* guard.pop_front()? ; drop(guard)
CreatePop(c) ==
  /\ At(c, "create_pop")
  /\ lock' = Unlocked
  /\ IF free_slots = <<>>
       THEN /\ Goto(c, "create_done", NoUrl, NoSlot)
            /\ free_slots' = free_slots
            /\ alloc_log' = Logged(NoSlot)
       ELSE /\ Goto(c, "create_insert", clients[c].url, pop_front(free_slots).id)
            /\ free_slots' = pop_front(free_slots).rest
            /\ alloc_log' = Logged(pop_front(free_slots).id)
  /\ UNCHANGED <<cache, now, pending, evicted, keep_log, batch, snapshot, resolver>>

\* self.cache.insert(slot_id, url.clone()).await ; Some(slot_id)
CreateInsert(c) ==
  /\ At(c, "create_insert")
  /\ CacheInsert(clients[c].slot_id, clients[c].url)
  /\ Goto(c, "create_done", NoUrl, clients[c].slot_id)
  /\ UNCHANGED <<free_slots, lock, now, keep_log, batch, snapshot, resolver>>

\* touch_redirect_slot: if let Some(url) = self.cache.get(&slot_id).await
TouchGet(c, k) ==
  /\ At(c, "idle")
  /\ IF CacheGet(k) # NoUrl
       THEN Goto(c, "touch_insert", CacheGet(k), k)
       ELSE Missed(c, k)
  /\ UNCHANGED <<free_slots, lock, cache, now, pending, alloc_log, evicted, keep_log, batch, snapshot, resolver>>

\* touch_redirect_slot: self.cache.insert(slot_id, url.clone()).await
TouchInsert(c) ==
  /\ At(c, "touch_insert")
  /\ CacheInsert(clients[c].slot_id, clients[c].url)
  /\ Touched(c, clients[c].slot_id)
  /\ UNCHANGED <<free_slots, lock, now, keep_log, batch, snapshot, resolver>>

\* A get that resets the clock of the entry it reads, as under time_to_idle.
GetRedirect_refreshes(c, k) ==
  /\ At(c, "idle")
  /\ Goto(c, "get_done", CacheGet(k), k)
  /\ cache' = [cache EXCEPT ![k] = IF IsLive(@) THEN Entry(@.url, now) ELSE @]
  /\ UNCHANGED <<free_slots, lock, now, pending, alloc_log, evicted, keep_log, batch,
                 snapshot, resolver>>

\* get_redirect
GetRedirect(c, k) ==
  /\ At(c, "idle")
  /\ Goto(c, "get_done", CacheGet(k), k)
  /\ UNCHANGED <<free_slots, lock, cache, now, pending, alloc_log, evicted, keep_log, batch, snapshot, resolver>>

\* The handler hands its response to the transport layer and ends.
Return(c) ==
  /\ clients[c].pc \in {"create_done", "touch_done", "get_done"}
  /\ clients' = [clients EXCEPT ![c] = Idle]
  /\ UNCHANGED <<free_slots, lock, cache, now, pending, alloc_log, evicted, keep_log, batch, snapshot, resolver>>

\* A sweep whose listener takes the lock and pushes the evicted ids itself,
\* inside the cache's step, instead of spawning a task.
Tick_inline_release ==
  /\ lock = Unlocked
  /\ cache' = [k \in Keys |-> IF k \in ExpiredKeys THEN NoEntry ELSE cache[k]]
  /\ free_slots' = free_slots \o
                     [i \in 1..Cardinality(ExpiredKeys) |->
                        CHOOSE k \in ExpiredKeys :
                          Cardinality({j \in ExpiredKeys : j < k}) = i - 1]
  /\ evicted' = (evicted \/ ExpiredKeys # {})
  /\ alloc_log' = Kept(evicted')
  /\ UNCHANGED <<lock, now, pending, clients, keep_log, batch, snapshot, resolver>>

\* tick: self.cache.run_pending_tasks().await, one turn of the sweep loop.
\* The expired entries go with cause Expired; if more than max_capacity
\* entries are left, as many as are over go with cause Size.
Tick ==
  \E vs \in SizeVictims(CacheKeys \ ExpiredKeys) :
    /\ cache' = [k \in Keys |-> IF k \in ExpiredKeys \/ k \in vs THEN NoEntry ELSE cache[k]]
    /\ pending' = Spawn(pending, Notified(ExpiredKeys, vs))
    /\ evicted' = (evicted \/ Notified(ExpiredKeys, vs) # {})
    /\ alloc_log' = Kept(evicted')
  /\ UNCHANGED <<free_slots, lock, now, clients, keep_log, batch, snapshot, resolver>>

\* The spawned release task: free_slots_for_eviction.lock().await
ReleaseLock(k) ==
  /\ pending[k] > 0
  /\ lock = Unlocked
  /\ lock' = HeldByRelease(k)
  /\ pending' = [pending EXCEPT ![k] = @ - 1]
  /\ UNCHANGED <<free_slots, cache, now, clients, alloc_log, evicted, keep_log, batch, snapshot, resolver>>

\* The spawned release task: guard.push_back(*slot_id), then the guard drops.
ReleasePush ==
  /\ lock.kind = "release"
  /\ free_slots' = push_back(free_slots, lock.who)
  /\ lock' = Unlocked
  /\ UNCHANGED <<cache, now, pending, clients, alloc_log, evicted, keep_log, batch, snapshot, resolver>>

\* Time passes.
Advance ==
  /\ now < MaxTime
  /\ now' = now + 1
  /\ UNCHANGED <<free_slots, lock, cache, pending, clients, alloc_log, evicted, keep_log, batch, snapshot, resolver>>

\* ---------------------------------------------------------------- get all
\* cache.iter() collected: the entries the cache still returns.
CacheIter == [k \in Keys |-> CacheGet(k)]

\* get_all_redirect_handler's match on the Option it gets, always Some(map).
get_all_redirect_handler(m) == "OK"

\* get_all_redirect
GetAll(c) ==
  /\ At(c, "idle")
  /\ snapshot' = [snapshot EXCEPT ![c] = CacheIter]
  /\ Goto(c, "get_all_done", NoUrl, NoSlot)
  /\ UNCHANGED <<free_slots, lock, cache, now, pending, alloc_log, evicted, keep_log,
                 batch, resolver>>

\* The handler hands the map to the transport layer and ends.
GetAllReturn(c) ==
  /\ At(c, "get_all_done")
  /\ clients' = [clients EXCEPT ![c] = Idle]
  /\ snapshot' = [snapshot EXCEPT ![c] = NoSnapshot]
  /\ UNCHANGED <<free_slots, lock, cache, now, pending, alloc_log, evicted, keep_log,
                 batch, resolver>>

\* One step of the get_all_redirect handlers of the workers cs.
ReadStep(cs) ==
  \/ \E c \in cs : GetAll(c)
  \/ \E c \in cs : GetAllReturn(c)

\* ---------------------------------------------------------------- batch touch
\* The request bodies of POST /redirect/touch: every list of ids, unknown and
\* repeated ones included, up to MaxBatch long.
BatchLists == UNION {[1..n -> Keys] : n \in 0..MaxBatch}

\* The id the for loop of batch_touch_redirect_handler is at.
BatchId(c) == batch[c].ids[batch[c].idx + 1]

\* The loop moves past the id it is at: on to the next one, or out of the loop
\* to Ok(StatusCode::OK) when that was the last.
BatchMoveOn(c) ==
  /\ batch' = [batch EXCEPT ![c].idx = @ + 1,
                            ![c].hits = IF At(c, "batch_insert") THEN @ + 1 ELSE @]
  /\ Goto(c, IF batch[c].idx + 1 = Len(batch[c].ids) THEN "batch_done" ELSE "batch",
          NoUrl, NoSlot)

\* batch_touch_redirect_handler's answer: Ok(StatusCode::OK), whatever the
\* touches did.
batch_touch_redirect_handler(b) == "OK"

\* batch_touch_redirect_handler is entered with req.slot_ids = ids.
BatchStart(c, ids) ==
  /\ At(c, "idle")
  /\ batch' = [batch EXCEPT ![c] = [ids |-> ids, idx |-> 0, hits |-> 0]]
  /\ Goto(c, IF ids = <<>> THEN "batch_done" ELSE "batch", NoUrl, NoSlot)
  /\ UNCHANGED <<free_slots, lock, cache, now, pending, alloc_log, evicted, keep_log,
                 snapshot, resolver>>

\* A loop that a touch of an id without a live entry brings to an end.
BatchTouchGet_stops_at_miss(c) ==
  /\ At(c, "batch")
  /\ IF CacheGet(BatchId(c)) # NoUrl
       THEN /\ Goto(c, "batch_insert", CacheGet(BatchId(c)), BatchId(c))
            /\ batch' = batch
       ELSE /\ Goto(c, "batch_done", NoUrl, NoSlot)
            /\ batch' = batch
  /\ UNCHANGED <<free_slots, lock, cache, now, pending, alloc_log, evicted, keep_log,
                 snapshot, resolver>>

\* gateway.touch_redirect_slot(slot_id) up to its cache.get(&slot_id).await
BatchTouchGet(c) ==
  /\ At(c, "batch")
  /\ IF CacheGet(BatchId(c)) # NoUrl
       THEN /\ Goto(c, "batch_insert", CacheGet(BatchId(c)), BatchId(c))
            /\ batch' = batch
       ELSE BatchMoveOn(c)
  /\ UNCHANGED <<free_slots, lock, cache, now, pending, alloc_log, evicted, keep_log,
                 snapshot, resolver>>

\* gateway.touch_redirect_slot(slot_id): its cache.insert(slot_id, url).await
BatchTouchInsert(c) ==
  /\ At(c, "batch_insert")
  /\ CacheInsert(clients[c].slot_id, clients[c].url)
  /\ BatchMoveOn(c)
  /\ UNCHANGED <<free_slots, lock, now, keep_log, snapshot, resolver>>

\* The handler hands its 200 to the transport layer and ends.
BatchReturn(c) ==
  /\ At(c, "batch_done")
  /\ clients' = [clients EXCEPT ![c] = Idle]
  /\ batch' = [batch EXCEPT ![c] = NoBatch]
  /\ UNCHANGED <<free_slots, lock, cache, now, pending, alloc_log, evicted, keep_log,
                 snapshot, resolver>>

\* One step of the batch touch handlers of the workers cs.
BatchStep(cs) ==
  \/ \E c \in cs, ids \in BatchLists : BatchStart(c, ids)
  \/ \E c \in cs : BatchTouchGet(c)
  \/ \E c \in cs : BatchTouchInsert(c)
  \/ \E c \in cs : BatchReturn(c)

\* ---------------------------------------------------------------- bv_resolver
\* The state of the gateway, which the resolver of src/bin/moe.rs never uses.
gateway_vars ==
  <<free_slots, lock, cache, now, pending, clients, alloc_log, evicted, keep_log,
    batch, snapshot>>

\* usize arithmetic is modulo 2^UsizeBits.
UsizeModulus == 2 ^ UsizeBits

\* usize::wrapping_sub, what a - b computes in a build without overflow checks.
wrapping_sub(a, b) == (a - b + UsizeModulus) % UsizeModulus

\* p - 1 of x.get(p - 1): its value, whether it went below zero, and whether
\* the build panics on that (overflow checks on) or wraps (off).
PageIndex(p, checks) ==
  [value |-> wrapping_sub(p, 1), underflow |-> p < 1, panic |-> p < 1 /\ checks]

\* The texts the pagelist lookup may answer with: no JSON; JSON without a
\* data array; JSON with a data array of n items that carry a numeric cid,
\* or do not.
PagelistBodies ==
  {[json |-> FALSE, pages |-> NoData, cid |-> FALSE]} \cup
  {[json |-> TRUE, pages |-> n, cid |-> b] : n \in NoData..MaxPages, b \in BOOLEAN}

\* The texts the playurl lookup may answer with.
PlayurlBodies == {"bad_json", "no_url", "url"}

\* bail!(msg) and the ? operator: the resolver ends with Err(msg).
Bail(msg) == [resolver EXCEPT !.pc = "done", !.result = msg]

\* The messages bv_resolver's errors carry.
ErrorMessages ==
  {"Failed to get cid", "Failed to parse cid response as UTF8",
   "Failed to parse cid response", "Failed to get cid from response",
   "Failed to get playurl", "Failed to parse playurl response as UTF8",
   "Failed to parse playurl response", "Failed to parse .data.durl[0].url"}

\* bv_resolver(bv, p) is entered: the client is built and the pagelist
\* request sent.
Resolve(p) ==
  resolver' = [NoRequest EXCEPT !.pc = "pagelist_send", !.p = p,
                                !.overflow_checks = resolver.overflow_checks,
                                !.sent = <<1, 0>>]

\* GET /{bvid}: bv_resolver(params.bvid.clone(), 1)
RouteBvid ==
  /\ resolver.pc = "idle"
  /\ Resolve(1)
  /\ UNCHANGED gateway_vars

\* GET /{bvid}/{p}: bv_resolver(params.bvid.clone(), params.p.unwrap_or(1usize))
RouteBvidP(p) ==
  /\ resolver.pc = "idle"
  /\ Resolve(p)
  /\ UNCHANGED gateway_vars

\* The pagelist request's send().await completes.
PagelistSend(ok) ==
  /\ resolver.pc = "pagelist_send"
  /\ resolver' = IF ok THEN [resolver EXCEPT !.pc = "pagelist_text"]
                        ELSE Bail("Failed to get cid")
  /\ UNCHANGED gateway_vars

\* cid.text().await completes; the text is parsed, the cid of page p looked
\* up in it and the playurl request sent.
PagelistText(ok, body) ==
  /\ resolver.pc = "pagelist_text"
  /\ resolver' =
       IF ~ok THEN Bail("Failed to parse cid response as UTF8")
       ELSE IF ~body.json THEN Bail("Failed to parse cid response")
       ELSE IF body.pages = NoData THEN Bail("Failed to get cid from response")
       ELSE LET ix == PageIndex(resolver.p, resolver.overflow_checks) IN
            IF ix.panic
              THEN [resolver EXCEPT !.pc = "done", !.result = "panic",
                                    !.pages = body.pages, !.underflow = TRUE]
            ELSE IF ix.value < body.pages /\ body.cid
              THEN [resolver EXCEPT !.pc = "playurl_send", !.pages = body.pages,
                                    !.index = ix.value, !.underflow = ix.underflow,
                                    !.sent = <<1, 1>>]
            ELSE [resolver EXCEPT !.pc = "done",
                                  !.result = "Failed to get cid from response",
                                  !.pages = body.pages, !.index = ix.value,
                                  !.underflow = ix.underflow]
  /\ UNCHANGED gateway_vars

\* The playurl request's send().await completes.
PlayurlSend(ok) ==
  /\ resolver.pc = "playurl_send"
  /\ resolver' = IF ok THEN [resolver EXCEPT !.pc = "playurl_text"]
                        ELSE Bail("Failed to get playurl")
  /\ UNCHANGED gateway_vars

\* playurl.text().await completes; the text is parsed and the url taken.
PlayurlText(ok, body) ==
  /\ resolver.pc = "playurl_text"
  /\ resolver' =
       IF ~ok THEN Bail("Failed to parse playurl response as UTF8")
       ELSE IF body = "bad_json" THEN Bail("Failed to parse playurl response")
       ELSE IF body = "no_url" THEN Bail("Failed to parse .data.durl[0].url")
       ELSE [resolver EXCEPT !.pc = "done", !.result = "redirect"]
  /\ UNCHANGED gateway_vars

\* The route's handler answers (a redirect, or the error as a 500) or, after
\* a panic, its task is gone; the server takes the next request.
ResolverReturn ==
  /\ resolver.pc = "done"
  /\ resolver' = [NoRequest EXCEPT !.overflow_checks = resolver.overflow_checks]
  /\ UNCHANGED gateway_vars

ResolverNext ==
  \/ RouteBvid
  \/ \E p \in 0..MaxPart : RouteBvidP(p)
  \/ \E ok \in BOOLEAN : PagelistSend(ok)
  \/ \E ok \in BOOLEAN, body \in PagelistBodies : PagelistText(ok, body)
  \/ \E ok \in BOOLEAN : PlayurlSend(ok)
  \/ \E ok \in BOOLEAN, body \in PlayurlBodies : PlayurlText(ok, body)
  \/ ResolverReturn

\* One step of the system when the handlers of cs are the ones running.
Step(cs) ==
  \/ \E c \in cs : CreateStart(c)
  \/ \E c \in cs : CreateLock(c)
  \/ \E c \in cs : CreatePop(c)
  \/ \E c \in cs : CreateInsert(c)
  \/ \E c \in cs, k \in Keys : TouchGet(c, k)
  \/ \E c \in cs : TouchInsert(c)
  \/ \E c \in cs, k \in Keys : GetRedirect(c, k)
  \/ \E c \in cs : Return(c)
  \/ Tick
  \/ \E k \in Keys : ReleaseLock(k)
  \/ ReleasePush
  \/ Advance

Next == Step(Clients)

Spec == Init /\ [][Next]_vars

\* What the runtime guarantees: the sweep loop keeps running, a task that holds
\* the lock reaches its drop (no await in between), a spawned release task
\* waiting on the fair tokio Mutex gets it.
Fairness ==
  /\ WF_vars(Tick)
  /\ WF_vars(ReleasePush)
  /\ \A c \in Clients : WF_vars(CreatePop(c))
  /\ \A k \in Keys : SF_vars(ReleaseLock(k))

FairSpec == Spec /\ Fairness

\* The same system with the dequeue log kept across evictions.
HistoryInit ==
  /\ free_slots = [i \in 1..MaxSlots |-> i]
  /\ lock = Unlocked
  /\ cache = [k \in Keys |-> NoEntry]
  /\ now = 0
  /\ pending = [k \in Keys |-> 0]
  /\ clients = [c \in Clients |-> Idle]
  /\ alloc_log = <<>>
  /\ evicted = FALSE
  /\ keep_log = TRUE
  /\ batch = [c \in Clients |-> NoBatch]
  /\ snapshot = [c \in Clients |-> NoSnapshot]
  /\ resolver = NoRequest

HistorySpec == HistoryInit /\ [][Next]_vars

\* The same system with a single request handler running.
LiveSpec == Init /\ [][Step({1})]_vars /\ Fairness

\* One step of the create_redirect handlers of the workers cs.
CreateStep(cs) ==
  \/ \E c \in cs : CreateStart(c)
  \/ \E c \in cs : CreateLock(c)
  \/ \E c \in cs : CreatePop(c)
  \/ \E c \in cs : CreateInsert(c)
  \/ \E c \in cs : Return(c)

\* One step of the sweep loop, of a release task or of the clock.
SystemStep ==
  \/ Tick
  \/ \E k \in Keys : ReleaseLock(k)
  \/ ReleasePush
  \/ Advance

\* tokio's Mutex is fair: a handler waiting in lock().await gets the lock too.
LockFairness ==
  /\ Fairness
  /\ \A c \in Clients : SF_vars(CreateLock(c))

\* The tasks that use the lock, the create_redirect handlers of every worker
\* and the release tasks, fairly scheduled.
LockSpec == Init /\ [][CreateStep(Clients) \/ SystemStep]_vars /\ LockFairness

\* The resolver service of src/bin/moe.rs, built with or without overflow
\* checks; it has no gateway.
ResolverInit ==
  /\ free_slots = [i \in 1..MaxSlots |-> i]
  /\ lock = Unlocked
  /\ cache = [k \in Keys |-> NoEntry]
  /\ now = 0
  /\ pending = [k \in Keys |-> 0]
  /\ clients = [c \in Clients |-> Idle]
  /\ alloc_log = <<>>
  /\ evicted = FALSE
  /\ keep_log = FALSE
  /\ batch = [c \in Clients |-> NoBatch]
  /\ snapshot = [c \in Clients |-> NoSnapshot]
  /\ resolver \in {[NoRequest EXCEPT !.overflow_checks = b] : b \in BOOLEAN}

ResolverSpec == ResolverInit /\ [][ResolverNext]_vars

\* Worker 1 serves create, touch and get requests while the other workers
\* serve batch touch requests.
BatchSpec == Init /\ [][Step({1}) \/ BatchStep(Clients \ {1})]_vars

\* Every worker serves create, touch, get and get-all requests.
ReadSpec == Init /\ [][Step(Clients) \/ ReadStep(Clients)]_vars

\* ---------------------------------------------------------------- views
\* The ids queued in the free pool.
InPool(k) == \E i \in 1..Len(free_slots) : free_slots[i] = k

\* No handler is inside a gateway operation, no release task is left.
Quiescent ==
  /\ \A c \in Clients : clients[c].pc \in {"idle", "create_done", "touch_done", "get_done"}
  /\ \A k \in Keys : pending[k] = 0
  /\ lock = Unlocked

\* ---------------------------------------------------------------- claims

\* C1: no double allocation.  Whenever create_redirect is about to dequeue
\* (it holds the lock and the pool is not empty), the id at the head of the
\* pool, which is the id it returns, has no live entry in the cache.
C1_NoDoubleAllocation ==
  \A c \in Clients :
    (At(c, "create_pop") /\ free_slots # <<>>) => ~IsLive(cache[Head(free_slots)])

\* C2: conservation.  In every quiescent state the number of ids in the free
\* pool plus the number of cache entries is max_slots.
C2_Conservation ==
  Quiescent => Len(free_slots) + Cardinality(CacheKeys) = MaxSlots

\* C3: mutual exclusion.  No id is at once queued in the free pool and a key
\* with an entry in the cache.
C3_MutualExclusion ==
  \A k \in Keys : ~(InPool(k) /\ cache[k].present)

\* C4: exhaustion.  From a fresh gateway, as long as nothing has been evicted,
\* the i-th dequeue returns id i for i <= max_slots (so the first max_slots
\* creates succeed with pairwise distinct ids of 1..max_slots) and every later
\* one returns None, which the handler answers with 503.
C4_Exhaustion ==
  /\ \A i \in 1..Len(alloc_log) :
        alloc_log[i] = IF i <= MaxSlots THEN i ELSE NoSlot
  /\ \A c \in Clients :
        (At(c, "create_done") /\ clients[c].slot_id = NoSlot)
          => create_redirect_handler(clients[c]) = "SERVICE_UNAVAILABLE"

\* C4 witness: max_slots creates have succeeded and the next one has failed,
\* with nothing evicted in between.
C4_Witness ==
  /\ Len(alloc_log) = MaxSlots + 1
  /\ alloc_log[MaxSlots + 1] = NoSlot
  /\ \E c \in Clients :
        At(c, "create_done") /\ create_redirect_handler(clients[c]) = "SERVICE_UNAVAILABLE"

\* C5: eventual reclaim.  With the sweep loop and the spawned release tasks
\* fairly scheduled, an id whose entry's ttl has elapsed is eventually back in
\* the free pool, from where a create_redirect can take it.
C5_EventualReclaim ==
  \A k \in SlotIds : IsExpired(cache[k]) ~> InPool(k)

\* C5 witness: id 1, the first id handed out, has been evicted and pushed
\* back: it sits at the tail of a pool that again holds every id.
C5_Witness ==
  /\ evicted
  /\ CacheKeys = {}
  /\ Len(free_slots) = MaxSlots
  /\ \A k \in SlotIds : InPool(k)
  /\ free_slots[MaxSlots] = 1

C7_NoLeakOnReplace ==
  [][ \A c \in Clients :
        ( /\ clients[c].pc \in {"touch_insert", "create_insert"}
          /\ clients'[c].pc \in {"touch_done", "create_done"}
          /\ IsLive(cache[clients[c].slot_id]) )
        => /\ free_slots' = free_slots
           /\ pending' = pending
           /\ lock' = lock
           /\ Cardinality(CacheKeys') = Cardinality(CacheKeys)
    ]_vars

\* C7 witness: two touches of the same id have each replaced a live entry, and
\* pool and cache still hold max_slots ids between them, none released.
C7_Witness ==
  /\ ~evicted
  /\ \A k \in Keys : pending[k] = 0
  /\ Len(free_slots) + Cardinality(CacheKeys) = MaxSlots
  /\ \E c, d \in Clients :
        /\ c # d
        /\ At(c, "touch_done") /\ At(d, "touch_done")
        /\ clients[c].cause = "Replaced" /\ clients[d].cause = "Replaced"
        /\ clients[c].slot_id = clients[d].slot_id

\* How many times id k is queued in the pool, waiting to be pushed or being
\* pushed.
Unallocated(k) ==
  Cardinality({i \in 1..Len(free_slots) : free_slots[i] = k})
    + pending[k]
    + (IF lock = HeldByRelease(k) THEN 1 ELSE 0)

\* The reuse scenario: ids 1..max_slots were handed out in order and a further
\* create failed (the frozen log), then every entry expired and was swept, and
\* no id has been handed out again: each is, once, in the pool or on its way.
AllSwept ==
  /\ Len(alloc_log) = MaxSlots + 1
  /\ evicted
  /\ now < 2 * TTL
  /\ CacheKeys = {}
  /\ \A c \in Clients : clients[c].pc \notin {"create_insert", "touch_insert"}
  /\ \A k \in SlotIds : Unallocated(k) = 1

\* Every spawned release task has pushed its id.
ReleasesDone == (\A k \in Keys : pending[k] = 0) /\ lock.kind # "release"

\* C8 as claimed: in the reuse scenario, with both release tasks finished, the
\* create that dequeues next succeeds and gets id 1.
C8_ReusesId1 ==
  \A c \in Clients :
    (AllSwept /\ ReleasesDone /\ At(c, "create_pop"))
      => (free_slots # <<>> /\ Head(free_slots) = 1)

\* C8 as amended: the pool is a FIFO queue (the only steps that change it are
\* a create taking its head and a release task appending its id at the tail),
\* so ids are reused in the order in which the release tasks pushed them; and
\* in the reuse scenario, once the release tasks have finished, the create
\* that dequeues next finds every id queued and succeeds with the one at the
\* head, whichever release task got there first.
C8_FifoReuse ==
  /\ [][ free_slots' # free_slots =>
            \/ \E c \in Clients :
                 /\ At(c, "create_pop")
                 /\ free_slots # <<>>
                 /\ free_slots' = Tail(free_slots)
                 /\ clients'[c].pc = "create_insert"
                 /\ clients'[c].slot_id = Head(free_slots)
            \/ \E k \in Keys :
                 /\ lock = HeldByRelease(k)
                 /\ free_slots' = Append(free_slots, k)
       ]_vars
  /\ [](\A c \in Clients :
          (AllSwept /\ ReleasesDone /\ At(c, "create_pop"))
            => /\ Len(free_slots) = MaxSlots
               /\ \A k \in SlotIds : InPool(k)
               /\ ENABLED CreatePop(c))

\* C8 witness: the reuse scenario has run to the point where the release
\* tasks have finished and a create holds the lock with id 1 at the head.
C8_Witness ==
  \E c \in Clients :
    AllSwept /\ ReleasesDone /\ At(c, "create_pop") /\ Head(free_slots) = 1

C10_ExhaustionIsImmediate ==
  /\ [][ \A c \in Clients :
            /\ (At(c, "create_pop") /\ clients'[c].pc # "create_pop")
                 => /\ (free_slots = <<>>)
                          <=> (clients'[c].pc = "create_done" /\ clients'[c].slot_id = NoSlot)
                    /\ (free_slots = <<>>)
                          => (free_slots' = free_slots /\ cache' = cache /\ pending' = pending)
                    /\ lock' = Unlocked
            /\ (At(c, "create_insert") /\ clients'[c].pc = "create_done")
                 => clients'[c].slot_id # NoSlot
            /\ (clients'[c].pc \in {"create_lock", "create_pop"} /\ clients'[c] # clients[c])
                 => (free_slots' = free_slots /\ cache' = cache /\ pending' = pending)
       ]_vars
  /\ [](\A c \in Clients : At(c, "create_pop") => ENABLED CreatePop(c))

\* C10 witness: a create has failed on an empty pool while a release task was
\* still waiting to push: it did not wait for it.
C10_Witness ==
  \E c \in Clients :
    /\ At(c, "create_done")
    /\ clients[c].slot_id = NoSlot
    /\ free_slots = <<>>
    /\ \E k \in SlotIds : pending[k] > 0
    /\ create_redirect_handler(clients[c]) = "SERVICE_UNAVAILABLE"

C12_ExactlyOnceRelease ==
  [][ /\ eviction_listener("Expired") /\ eviction_listener("Explicit")
      /\ eviction_listener("Size") /\ ~eviction_listener("Replaced")
      /\ \A k \in Keys :
           LET gone == cache[k].present /\ cache'[k] # cache[k]
               cause == IF cache'[k].present THEN UpsertCause(cache[k]) ELSE "Expired"
           IN
           /\ (gone /\ cause = "Expired") => pending'[k] = pending[k] + 1
           /\ (gone /\ cause = "Replaced") => pending'[k] = pending[k]
           /\ ~gone => pending'[k] <= pending[k]
           /\ pending'[k] < pending[k]
                => /\ pending'[k] = pending[k] - 1
                   /\ lock = Unlocked
                   /\ lock' = HeldByRelease(k)
           /\ (lock' = HeldByRelease(k) /\ lock # lock') => pending'[k] = pending[k] - 1
           /\ (lock = HeldByRelease(k) /\ lock' # lock)
                => /\ lock' = Unlocked
                   /\ free_slots' = Append(free_slots, k)
      /\ free_slots' # free_slots
           => \/ /\ lock.kind = "release"
                 /\ free_slots' = Append(free_slots, lock.who)
              \/ /\ lock.kind = "client"
                 /\ free_slots # <<>>
                 /\ free_slots' = Tail(free_slots)
    ]_vars

\* C12 witness: both ids were handed out; the entry of id 1 was evicted and
\* its one release task has pushed it, so id 1 is in the pool exactly once
\* with no release task left, while a touch that replaced the live entry of
\* id 2 released nothing.
C12_Witness ==
  /\ evicted
  /\ free_slots = <<1>>
  /\ ~cache[1].present
  /\ lock = Unlocked
  /\ \A k \in Keys : pending[k] = 0
  /\ IsLive(cache[2])
  /\ \E c \in Clients :
        At(c, "touch_done") /\ clients[c].slot_id = 2 /\ clients[c].cause = "Replaced"

\* C13: touch preserves the url.  Under every interleaving, the insert that
\* ends a touch of id k finds the entry of k in the cache and leaves its url
\* as it was: the url installed by the latest create_redirect that returned
\* k.  A touch never puts an older url over a newer allocation's and never
\* re-creates an entry that has been evicted.
C13_TouchPreservesUrl ==
  [][ \A c \in Clients :
        (At(c, "touch_insert") /\ clients'[c].pc = "touch_done")
        => LET k == clients[c].slot_id IN
           /\ cache[k].present
           /\ cache'[k].url = cache[k].url
    ]_vars

C15_CapacityNeverExceeded ==
  /\ Cardinality(CacheKeys) <= max_capacity
  /\ CacheKeys \subseteq SlotIds
  /\ \A c \in Clients :
        clients[c].pc \in {"create_insert", "touch_insert"} => clients[c].slot_id \in SlotIds
  /\ SizeVictims(CacheKeys \ ExpiredKeys) = {{}}
  /\ SizeVictims(CacheKeys) = {{}}

\* C15 witness: the cache is full, every id of 1..max_slots has an entry, the
\* last insert into it was a touch that replaced an entry, and a create has
\* just found the pool empty.
C15_Witness ==
  /\ CacheKeys = SlotIds
  /\ free_slots = <<>>
  /\ \E c, d \in Clients :
        /\ At(c, "touch_done") /\ clients[c].cause = "Replaced"
        /\ At(d, "create_done") /\ clients[d].slot_id = NoSlot

\* C16: free pool lock discipline.  The lock is held only by a create_redirect
\* that is at its dequeue or by a release task that is at its enqueue; the
\* holder's next step, which is always enabled, gives the lock back, so the
\* lock is never held across a cache operation or a suspension point and no
\* state is a deadlock; and every task waiting for the lock, handler or
\* release task, eventually gets it.
C16_LockDiscipline ==
  /\ [](\A c \in Clients : lock = HeldByClient(c) <=> At(c, "create_pop"))
  /\ [](lock.kind \in {"free", "client", "release"})
  /\ [](lock.kind = "client" => ENABLED CreatePop(lock.who))
  /\ [](lock.kind = "release" => ENABLED ReleasePush)
  /\ [][lock # Unlocked => lock' \in {lock, Unlocked}]_vars
  /\ \A c \in Clients : At(c, "create_lock") ~> At(c, "create_pop")
  /\ \A k \in SlotIds : (pending[k] > 0) ~> (lock = HeldByRelease(k))

\* C16 witness: one handler holds the lock for its dequeue while another
\* handler and a release task wait for it.
C16_Witness ==
  \E c, d \in Clients :
    /\ lock = HeldByClient(d)
    /\ At(c, "create_lock")
    /\ \E k \in SlotIds : pending[k] > 0

\* C17: expiry is detected only by the sweep.  While an entry whose ttl has
\* run out has not been swept, get_redirect returns None for its id, a touch
\* of it does nothing, and the id is not in the free pool, so that no
\* create_redirect can return it; and only a sweep that removes the entry
\* spawns the release of its id: without a sweep the id is never released.
C17_ExpiryOnlyBySweep ==
  [][ \A k \in SlotIds :
        /\ IsExpired(cache[k])
             => /\ CacheGet(k) = NoUrl
                /\ ~InPool(k)
                /\ \A c \in Clients :
                     (At(c, "idle") /\ clients'[c].slot_id = k)
                       => clients'[c].pc \in {"touch_done", "get_done"}
        /\ pending'[k] > pending[k]
             => (IsExpired(cache[k]) /\ ~cache'[k].present)
    ]_vars

\* C18: eviction handling is asynchronous.  A step of the cache that notifies
\* the listener, an insert or a sweep, neither takes the lock nor changes the
\* free pool: it only spawns the release task.  The enqueue happens in a step
\* of its own, made by the task that holds the lock, which leaves the cache
\* alone.  So an insert or a sweep never waits for the lock: each is enabled
\* whoever holds it.
C18_AsyncEviction ==
  [][ /\ (cache' # cache \/ \E k \in Keys : pending'[k] > pending[k])
           => (free_slots' = free_slots /\ lock' = lock)
      /\ Len(free_slots') > Len(free_slots)
           => /\ lock.kind = "release"
              /\ lock' = Unlocked
              /\ cache' = cache
              /\ pending' = pending
      /\ lock # Unlocked
           => /\ ENABLED Tick
              /\ \A c \in Clients :
                   /\ At(c, "create_insert") => ENABLED CreateInsert(c)
                   /\ At(c, "touch_insert") => ENABLED TouchInsert(c)
    ]_vars

\* C18 witness: a sweep has evicted an entry while a handler held the lock:
\* the entry is gone, its release task is spawned and waits, the id is not
\* yet in the pool.
C18_Witness ==
  /\ lock.kind = "client"
  /\ \E k \in SlotIds :
        /\ pending[k] = 1
        /\ ~cache[k].present
        /\ ~InPool(k)

\* C19: free pool well-formedness.  The free pool holds only ids of
\* 1..max_slots, holds none of them twice, and is never longer than max_slots.
C19_PoolWellFormed ==
  /\ \A i \in 1..Len(free_slots) : free_slots[i] \in SlotIds
  /\ \A i, j \in 1..Len(free_slots) : free_slots[i] = free_slots[j] => i = j
  /\ Len(free_slots) <= MaxSlots

\* C20: the resolver's outcome is total.  For every part index p the route
\* accepts, p = 0 included, bv_resolver ends with a redirect or with one of
\* its descriptive errors; the computation of the page index p - 1 never goes
\* below zero; and each of the two upstream requests is sent at most once.
C20_ResolverTotal ==
  /\ resolver.pc = "done" => resolver.result \in {"redirect"} \cup ErrorMessages
  /\ ~resolver.underflow
  /\ resolver.sent[1] <= 1 /\ resolver.sent[2] <= 1

====
